---- MODULE Spec2Model ----
(***************************************************************************)
(* Legal Document Simplifier API (src/main.py): the chunker chunk_text,    *)
(* the generation client simplify_text_chunk with its tenacity retry       *)
(* policy, the chunk pipeline process_chunks_with_rate_limit and the       *)
(* /simplify and /chat handlers.                                           *)
(*                                                                         *)
(* A str is a sequence of one-character strings; bytes are a sequence of   *)
(* byte values.                                                            *)
(***************************************************************************)
EXTENDS Integers, Sequences, FiniteSets, TLC

\* ------------------------------------------------------------------ bounds

\* longest text and largest chunk_size handed to chunk_text in SpecChunk
MaxTextLen == 5
MaxBound == 4

\* longest uploaded text file, and longest upload over the whole byte alphabet
MaxDocLen == 7
MaxRawLen == 2

\* chunk_size of the document chunks (15000 in simplify_document) and of the
\* fallback sub-chunks (8000 in process_chunks_with_rate_limit), scaled down
\* to the size of the documents above
ChunkSize == 4
SubChunkSize == 2

\* ------------------------------------------------------- str operations

Chars == {"a", "b", " ", "\n"}

\* str.isspace() on one character
IsSpace(c) == c \in {" ", "\n"}

RECURSIVE SplitFrom(_, _, _, _)
SplitFrom(text, k, word, words) ==
    IF k > Len(text)
    THEN IF word = <<>> THEN words ELSE Append(words, word)
    ELSE IF IsSpace(text[k])
         THEN SplitFrom(text, k + 1, <<>>,
                        IF word = <<>> THEN words ELSE Append(words, word))
         ELSE SplitFrom(text, k + 1, Append(word, text[k]), words)

\* text.split(): the maximal runs of non-whitespace characters, in order
split(text) == SplitFrom(text, 1, <<>>, <<>>)

RECURSIVE join(_, _)
\* sep.join(parts)
join(sep, parts) ==
    IF parts = <<>> THEN <<>>
    ELSE IF Len(parts) = 1 THEN parts[1]
    ELSE parts[1] \o sep \o join(sep, Tail(parts))

\* `not text.strip()`: stripping leading and trailing whitespace leaves ''
StripIsEmpty(text) == \A k \in 1..Len(text) : IsSpace(text[k])

\* ------------------------------------------------------------ chunk_text

\* a mutant of WordSize: the joining space is not counted
WordSize_NoSpace(word) == Len(word)

\* word_size = len(word) + 1
WordSize(word) == Len(word) + 1

RECURSIVE ChunkLoop(_, _, _, _, _, _)
\* the for loop of chunk_text from words[k] on
ChunkLoop(words, k, chunk_size, chunks, current_chunk, current_size) ==
    IF k > Len(words)
    THEN [chunks |-> chunks, current_chunk |-> current_chunk]
    ELSE LET word == words[k]
             word_size == WordSize(word)
         IN  IF current_size + word_size > chunk_size
             THEN ChunkLoop(words, k + 1, chunk_size,
                            Append(chunks, join(<<" ">>, current_chunk)),
                            <<word>>, word_size)
             ELSE ChunkLoop(words, k + 1, chunk_size, chunks,
                            Append(current_chunk, word),
                            current_size + word_size)

chunk_text(text, chunk_size) ==
    LET r == ChunkLoop(split(text), 1, chunk_size, <<>>, <<>>, 0)
    IN  IF r.current_chunk # <<>>
        THEN Append(r.chunks, join(<<" ">>, r.current_chunk))
        ELSE r.chunks

\* ------------------------------------------------------------------ state

VARIABLES
    model,              \* the module-level Gemini handle: "initialized" or "None"
    pc,                 \* position of the request-handling coroutine
    endpoint,           \* "/simplify", "/chat" or "none" before a request
    content,            \* simplify_document: the uploaded bytes
    file_type,          \* simplify_document: magic's MIME type
    document_text,      \* simplify_document: the extracted text
    chunks,             \* process_chunks_with_rate_limit: its argument
    i,                  \* process_chunks_with_rate_limit: enumerate index, 0 before
    sub_chunks,         \* process_chunks_with_rate_limit: the fallback chunks
    j,                  \* position in sub_chunks, 0 outside a fallback
    simplified_chunks,  \* process_chunks_with_rate_limit: the fragments so far
    caller,             \* who awaits simplify_text_chunk: "chunk", "sub", "chat"
    chunk,              \* simplify_text_chunk: its argument
    attempt_number,     \* tenacity: retry_state.attempt_number
    outcome,            \* how simplify_text_chunk ended: "none", "ok", "RetryError"
    raised,             \* the exception caught by the handler's except clause
    response,           \* the HTTP response
    log,                \* the attempts, sleeps and waits so far, in order
    ct_pc, ct_text, ct_chunk_size, ct_chunks,  \* a bare call of chunk_text
    requests            \* the locals of each of two concurrent /simplify coroutines

ct_vars == <<ct_pc, ct_text, ct_chunk_size, ct_chunks>>

req_vars == <<endpoint, content, file_type, document_text>>

pipe_vars == <<chunks, i, sub_chunks, j, simplified_chunks>>

gen_vars == <<caller, chunk, attempt_number, outcome>>

conc_vars == <<requests>>

vars == <<model, pc, req_vars, pipe_vars, gen_vars, raised, response, log, ct_vars,
          conc_vars>>

RECURSIVE SeqsUpTo(_, _)
\* the sequences over S of length at most n
SeqsUpTo(S, n) ==
    IF n = 0 THEN {<<>>}
    ELSE LET shorter == SeqsUpTo(S, n - 1)
         IN  shorter \cup {Append(s, c) : s \in {t \in shorter : Len(t) = n - 1}, c \in S}

\* ---------------------------------------------------------- collaborators

\* the bytes of the uploads: NUL, space, '%' (first byte of %PDF), 'a' and
\* 0xE9 (latin-1 e-acute, never valid UTF-8 without a continuation byte)
Bytes == {0, 32, 37, 97, 233}
TextBytes == {32, 97}

Uploads == SeqsUpTo(TextBytes, MaxDocLen) \cup SeqsUpTo(Bytes, MaxRawLen)

\* magic.from_buffer(content, mime=True)
from_buffer(bytes) ==
    IF bytes = <<>> THEN "application/x-empty"
    ELSE IF bytes[1] = 37 THEN "application/pdf"
    ELSE IF \E k \in 1..Len(bytes) : bytes[k] = 0 THEN "application/octet-stream"
    ELSE "text/plain"

Chr(b) == CASE b = 0 -> "NUL" [] b = 32 -> " " [] b = 37 -> "%"
            [] b = 97 -> "a" [] b = 233 -> "e-acute"

\* content.decode("utf-8") raises UnicodeDecodeError
Utf8Fails(bytes) == \E k \in 1..Len(bytes) : bytes[k] >= 128

\* content.decode("utf-8") where it succeeds: every byte is ASCII
decode_utf8(bytes) == [k \in 1..Len(bytes) |-> Chr(bytes[k])]

\* content.decode("latin-1"): one character per byte, never raises
decode_latin1(bytes) == [k \in 1..Len(bytes) |-> Chr(bytes[k])]

\* what page.extract_text() gives for the pages of the PDFs uploaded
PdfDocuments ==
    { <<>>, << <<" ">> >>, << <<"a">> >>, << <<"a", " ", "a">>, <<"\n">>, <<"a", "a">> >> }

RECURSIVE NonBlank(_)
NonBlank(pages) ==
    IF pages = <<>> THEN <<>>
    ELSE IF StripIsEmpty(pages[1]) THEN NonBlank(Tail(pages))
    ELSE <<pages[1]>> \o NonBlank(Tail(pages))

\* read_pdf_file where PdfReader succeeds
read_pdf_text(pages) == join(<<"\n", "\n">>, NonBlank(pages))

\* the prompt of simplify_text_chunk, and response.text for a prompt
Prompt(c) == <<"simplify:">> \o c
Generated(prompt) == <<"generated:">> \o prompt

\* the prompt built by chat_with_document
ChatMessages == {[message |-> <<"a">>, document_content |-> <<"None">>],
                 [message |-> <<"a">>, document_content |-> <<"a", " ", "a">>]}
ChatPrompt(m) == <<"chat:">> \o m.message \o <<"doc:">> \o m.document_content

\* f"[Error processing this section: {str(sub_e)}]"
ErrorMarker == <<"[Error processing this section: ", "RetryError", "]">>

NoException == [type |-> "None", status_code |-> 0, detail |-> ""]
HTTPException(status, detail) ==
    [type |-> "HTTPException", status_code |-> status, detail |-> detail]

NoResponse == [status_code |-> 0, body |-> <<>>]

Event(ev, n) == [ev |-> ev, i |-> i, j |-> j, n |-> n]

\* -------------------------------------------------------------- startup

CtIdle ==
    /\ ct_pc = "idle"
    /\ ct_text = <<>>
    /\ ct_chunk_size = 1
    /\ ct_chunks = <<>>

\* the two requests in flight at once
Requests == {1, 2}

\* the locals of a /simplify coroutine before its request arrives
IdleRequest ==
    [pc |-> "idle", document_text |-> <<>>, chunks |-> <<>>, i |-> 0,
     sub_chunks |-> <<>>, j |-> 0, simplified_chunks |-> <<>>,
     caller |-> "none", attempt_number |-> 0, calls |-> <<>>]

Idle ==
    /\ requests = [r \in Requests |-> IdleRequest]
    /\ pc = "idle"
    /\ endpoint = "none"
    /\ content = <<>>
    /\ file_type = ""
    /\ document_text = <<>>
    /\ chunks = <<>>
    /\ i = 0
    /\ sub_chunks = <<>>
    /\ j = 0
    /\ simplified_chunks = <<>>
    /\ caller = "none"
    /\ chunk = <<>>
    /\ attempt_number = 0
    /\ outcome = "none"
    /\ raised = NoException
    /\ response = NoResponse
    /\ log = <<>>

\* genai.GenerativeModel(...) at import, or model = None when it raises
Init ==
    /\ model \in {"initialized", "None"}
    /\ Idle
    /\ CtIdle

\* ------------------------------------------------- simplify_text_chunk

\* await simplify_text_chunk(c): tenacity starts with attempt 1
CallSimplifyTextChunk(who, c) ==
    /\ caller' = who
    /\ chunk' = c
    /\ attempt_number' = 1
    /\ outcome' = "none"

\* one attempt begins: the prompt is built and model.generate_content called
AttemptStart ==
    /\ pc = "g_attempt"
    /\ log' = Append(log, Event("start", attempt_number))
    /\ pc' = "g_call"
    /\ UNCHANGED <<model, req_vars, pipe_vars, gen_vars, raised, response>>
    /\ UNCHANGED <<ct_vars, conc_vars>>

\* generate_content returns and simplify_text_chunk returns response.text
GenerateReturns ==
    /\ pc = "g_call"
    /\ model # "None"
    /\ log' = Append(log, Event("ok", attempt_number))
    /\ outcome' = "ok"
    /\ pc' = "g_done"
    /\ UNCHANGED <<model, req_vars, pipe_vars, caller, chunk, attempt_number,
                   raised, response>>
    /\ UNCHANGED <<ct_vars, conc_vars>>

\* generate_content raises (on None: AttributeError, nothing is sent)
GenerateRaises ==
    /\ pc = "g_call"
    /\ log' = Append(log, Event("fail", attempt_number))
    /\ pc' = "g_except"
    /\ UNCHANGED <<model, req_vars, pipe_vars, gen_vars, raised, response>>
    /\ UNCHANGED <<ct_vars, conc_vars>>

\* except Exception: time.sleep(random.uniform(2, 5)); raise
ExceptSleepRaise ==
    /\ pc = "g_except"
    /\ log' = Append(log, Event("jitter", attempt_number))
    /\ pc' = "g_raised"
    /\ UNCHANGED <<model, req_vars, pipe_vars, gen_vars, raised, response>>
    /\ UNCHANGED <<ct_vars, conc_vars>>

\* stop_after_attempt(3)
MaxAttempts == 3

\* a mutant of stop_after_attempt: gives up one attempt early
stop_after_attempt_early(n) == n >= MaxAttempts - 1

\* a mutant of stop_after_attempt: one attempt more
stop_after_attempt_late(n) == n >= MaxAttempts + 1

stop_after_attempt(n) == n >= MaxAttempts

RECURSIVE Pow2(_)
Pow2(n) == IF n = 0 THEN 1 ELSE 2 * Pow2(n - 1)

Max(a, b) == IF a >= b THEN a ELSE b
Min(a, b) == IF a <= b THEN a ELSE b

\* wait_exponential(multiplier=1, min=4, max=10) after attempt n, in seconds
\* a mutant of wait_exponential: the floor is taken as the first wait and
\* doubled
wait_exponential_doubling(n) == Min(4 * Pow2(n - 1), 10)

wait_exponential(n) == Max(Max(0, 4), Min(1 * Pow2(n - 1), 10))

\* tenacity after a raising attempt: RetryError once stop says so, else the
\* before_sleep print, the wait and the next attempt
TenacityRetry ==
    /\ pc = "g_raised"
    /\ IF stop_after_attempt(attempt_number)
       THEN /\ outcome' = "RetryError"
            /\ pc' = "g_done"
            /\ log' = Append(log, Event("giveup", attempt_number))
            /\ UNCHANGED attempt_number
       ELSE /\ log' = Append(log, Event("backoff", wait_exponential(attempt_number)))
            /\ attempt_number' = attempt_number + 1
            /\ pc' = "g_attempt"
            /\ UNCHANGED outcome
    /\ UNCHANGED <<model, req_vars, pipe_vars, caller, chunk, raised, response>>
    /\ UNCHANGED <<ct_vars, conc_vars>>

\* ------------------------------------- process_chunks_with_rate_limit

\* a mutant of LoopNext: the call is started with create_task, not awaited
LoopNext_NotAwaited ==
    /\ pc = "p_loop"
    /\ IF i > Len(chunks)
       THEN /\ pc' = "s_join"
            /\ UNCHANGED <<i, log, gen_vars>>
       ELSE /\ log' = log \o (IF i > 1 THEN <<Event("pace", 0)>> ELSE <<>>)
                          \o <<Event("start", 1)>>
            /\ i' = i + 1
            /\ pc' = "p_loop"
            /\ UNCHANGED gen_vars
    /\ UNCHANGED <<model, req_vars, chunks, sub_chunks, j, simplified_chunks,
                   raised, response>>
    /\ UNCHANGED <<ct_vars, conc_vars>>

\* the head of the for loop: return after the last chunk, else the pacing
\* sleep (i > 1) and the call for chunk i
LoopNext ==
    /\ pc = "p_loop"
    /\ IF i > Len(chunks)
       THEN /\ pc' = "s_join"
            /\ UNCHANGED <<log, gen_vars>>
       ELSE /\ log' = log \o (IF i > 1 THEN <<Event("pace", 0)>> ELSE <<>>)
            /\ CallSimplifyTextChunk("chunk", chunks[i])
            /\ pc' = "g_attempt"
    /\ UNCHANGED <<model, req_vars, pipe_vars, raised, response>>
    /\ UNCHANGED <<ct_vars, conc_vars>>

\* a mutant of ChunkAppend: the fragment is put in front
ChunkAppend_InFront ==
    /\ pc = "g_done" /\ caller = "chunk" /\ outcome = "ok"
    /\ simplified_chunks' = <<Generated(Prompt(chunk))>> \o simplified_chunks
    /\ i' = i + 1
    /\ pc' = "p_loop"
    /\ UNCHANGED <<model, req_vars, chunks, sub_chunks, j, gen_vars, raised,
                   response, log>>
    /\ UNCHANGED <<ct_vars, conc_vars>>

\* simplified_chunks.append(simplified_chunk)
ChunkAppend ==
    /\ pc = "g_done" /\ caller = "chunk" /\ outcome = "ok"
    /\ simplified_chunks' = Append(simplified_chunks, Generated(Prompt(chunk)))
    /\ i' = i + 1
    /\ pc' = "p_loop"
    /\ UNCHANGED <<model, req_vars, chunks, sub_chunks, j, gen_vars, raised,
                   response, log>>
    /\ UNCHANGED <<ct_vars, conc_vars>>

\* a mutant of ChunkExcept: no fallback, the chunk gets the error marker
ChunkExcept_NoFallback ==
    /\ pc = "g_done" /\ caller = "chunk" /\ outcome = "RetryError"
    /\ simplified_chunks' = Append(simplified_chunks, ErrorMarker)
    /\ i' = i + 1
    /\ pc' = "p_loop"
    /\ UNCHANGED <<model, req_vars, chunks, sub_chunks, j, gen_vars, raised,
                   response, log>>
    /\ UNCHANGED <<ct_vars, conc_vars>>

\* a mutant of ChunkExcept: the failure of the whole chunk propagates
ChunkExcept_Reraise ==
    /\ pc = "g_done" /\ caller = "chunk" /\ outcome = "RetryError"
    /\ raised' = [type |-> "RetryError", status_code |-> 0, detail |-> "RetryError"]
    /\ pc' = "s_except"
    /\ UNCHANGED <<model, req_vars, pipe_vars, gen_vars, response, log>>
    /\ UNCHANGED <<ct_vars, conc_vars>>

\* except Exception: sub_chunks = chunk_text(chunk, chunk_size=8000)
ChunkExcept ==
    /\ pc = "g_done" /\ caller = "chunk" /\ outcome = "RetryError"
    /\ sub_chunks' = chunk_text(chunks[i], SubChunkSize)
    /\ j' = 1
    /\ pc' = "p_sub_loop"
    /\ UNCHANGED <<model, req_vars, chunks, i, simplified_chunks, gen_vars,
                   raised, response, log>>
    /\ UNCHANGED <<ct_vars, conc_vars>>

\* a mutant of SubLoopNext: no pacing sleep before the first sub-chunk
SubLoopNext_PaceAfterFirst ==
    /\ pc = "p_sub_loop"
    /\ IF j > Len(sub_chunks)
       THEN /\ i' = i + 1
            /\ j' = 0
            /\ sub_chunks' = <<>>
            /\ pc' = "p_loop"
            /\ UNCHANGED <<log, gen_vars>>
       ELSE /\ log' = log \o (IF j > 1 THEN <<Event("pace", 0)>> ELSE <<>>)
            /\ CallSimplifyTextChunk("sub", sub_chunks[j])
            /\ pc' = "g_attempt"
            /\ UNCHANGED <<i, j, sub_chunks>>
    /\ UNCHANGED <<model, req_vars, chunks, simplified_chunks, raised, response>>
    /\ UNCHANGED <<ct_vars, conc_vars>>

\* the head of the inner for loop: on to the next chunk after the last
\* sub-chunk, else the sleep and the call for sub-chunk j
SubLoopNext ==
    /\ pc = "p_sub_loop"
    /\ IF j > Len(sub_chunks)
       THEN /\ i' = i + 1
            /\ j' = 0
            /\ sub_chunks' = <<>>
            /\ pc' = "p_loop"
            /\ UNCHANGED <<log, gen_vars>>
       ELSE /\ log' = Append(log, Event("pace", 0))
            /\ CallSimplifyTextChunk("sub", sub_chunks[j])
            /\ pc' = "g_attempt"
            /\ UNCHANGED <<i, j, sub_chunks>>
    /\ UNCHANGED <<model, req_vars, chunks, simplified_chunks, raised, response>>
    /\ UNCHANGED <<ct_vars, conc_vars>>

\* simplified_chunks.append(simplified_sub_chunk)
SubAppend ==
    /\ pc = "g_done" /\ caller = "sub" /\ outcome = "ok"
    /\ simplified_chunks' = Append(simplified_chunks, Generated(Prompt(chunk)))
    /\ j' = j + 1
    /\ pc' = "p_sub_loop"
    /\ UNCHANGED <<model, req_vars, chunks, i, sub_chunks, gen_vars, raised,
                   response, log>>
    /\ UNCHANGED <<ct_vars, conc_vars>>

\* a mutant of SubExcept: the sub-chunk's error is raised again
SubExcept_Reraise ==
    /\ pc = "g_done" /\ caller = "sub" /\ outcome = "RetryError"
    /\ raised' = [type |-> "RetryError", status_code |-> 0, detail |-> "RetryError"]
    /\ pc' = "s_except"
    /\ UNCHANGED <<model, req_vars, pipe_vars, gen_vars, response, log>>
    /\ UNCHANGED <<ct_vars, conc_vars>>

\* a mutant of SubExcept: the error is swallowed, nothing is appended
SubExcept_Swallow ==
    /\ pc = "g_done" /\ caller = "sub" /\ outcome = "RetryError"
    /\ j' = j + 1
    /\ pc' = "p_sub_loop"
    /\ UNCHANGED <<model, req_vars, chunks, i, sub_chunks, simplified_chunks,
                   gen_vars, raised, response, log>>
    /\ UNCHANGED <<ct_vars, conc_vars>>

\* except Exception as sub_e: the error marker is appended
SubExcept ==
    /\ pc = "g_done" /\ caller = "sub" /\ outcome = "RetryError"
    /\ simplified_chunks' = Append(simplified_chunks, ErrorMarker)
    /\ j' = j + 1
    /\ pc' = "p_sub_loop"
    /\ UNCHANGED <<model, req_vars, chunks, i, sub_chunks, gen_vars, raised,
                   response, log>>
    /\ UNCHANGED <<ct_vars, conc_vars>>

\* ---------------------------------------------------- simplify_document

\* POST /simplify: the model check, then await file.read()
SimplifyDocument ==
    /\ pc = "idle"
    /\ endpoint' = "/simplify"
    /\ IF model = "None"
       THEN /\ raised' = HTTPException(500, "Gemini model not initialized properly")
            /\ pc' = "s_except"
            /\ UNCHANGED content
       ELSE /\ content' \in Uploads
            /\ pc' = "s_detect"
            /\ UNCHANGED raised
    /\ UNCHANGED <<model, file_type, document_text, pipe_vars, gen_vars,
                   response, log>>
    /\ UNCHANGED <<ct_vars, conc_vars>>

\* a mutant of ExtractText: a type other than PDF is read as text
ExtractText_NoTypeCheck ==
    /\ pc = "s_detect"
    /\ file_type' = from_buffer(content)
    /\ \/ /\ file_type' = "application/pdf"
          /\ \/ \E pages \in PdfDocuments :
                  /\ document_text' = read_pdf_text(pages)
                  /\ pc' = "s_check"
                  /\ UNCHANGED raised
             \/ /\ raised' = HTTPException(400, "Could not read the PDF document")
                /\ pc' = "s_except"
                /\ UNCHANGED document_text
       \/ /\ file_type' # "application/pdf"
          /\ document_text' = decode_latin1(content)
          /\ pc' = "s_check"
          /\ UNCHANGED raised
    /\ UNCHANGED <<model, endpoint, content, pipe_vars, gen_vars, response, log>>
    /\ UNCHANGED <<ct_vars, conc_vars>>

\* magic.from_buffer, then the text by file type
ExtractText ==
    /\ pc = "s_detect"
    /\ file_type' = from_buffer(content)
    /\ \/ /\ file_type' = "application/pdf"
          /\ \/ \E pages \in PdfDocuments :
                  /\ document_text' = read_pdf_text(pages)
                  /\ pc' = "s_check"
                  /\ UNCHANGED raised
             \/ /\ raised' = HTTPException(400, "Could not read the PDF document")
                /\ pc' = "s_except"
                /\ UNCHANGED document_text
       \/ /\ file_type' = "text/plain"
          /\ document_text' = IF Utf8Fails(content)
                               THEN decode_latin1(content)
                               ELSE decode_utf8(content)
          /\ pc' = "s_check"
          /\ UNCHANGED raised
       \/ /\ file_type' \notin {"application/pdf", "text/plain"}
          /\ raised' = HTTPException(400, "Unsupported file type")
          /\ pc' = "s_except"
          /\ UNCHANGED document_text
    /\ UNCHANGED <<model, endpoint, content, pipe_vars, gen_vars, response, log>>
    /\ UNCHANGED <<ct_vars, conc_vars>>

\* the empty check, chunk_text and the call of the pipeline
CheckAndChunk ==
    /\ pc = "s_check"
    /\ IF StripIsEmpty(document_text)
       THEN /\ raised' = HTTPException(400, "The uploaded file is empty")
            /\ pc' = "s_except"
            /\ UNCHANGED pipe_vars
       ELSE /\ chunks' = chunk_text(document_text, ChunkSize)
            /\ i' = 1
            /\ simplified_chunks' = <<>>
            /\ pc' = "p_loop"
            /\ UNCHANGED <<sub_chunks, j, raised>>
    /\ UNCHANGED <<model, req_vars, gen_vars, response, log>>
    /\ UNCHANGED <<ct_vars, conc_vars>>

\* '\n\n'.join(simplified_chunks) and the 200 response
SimplifyReturn ==
    /\ pc = "s_join"
    /\ response' = [status_code |-> 200,
                    body |-> [original |-> document_text,
                              simplified |-> join(<<"\n", "\n">>, simplified_chunks)]]
    /\ pc' = "done"
    /\ UNCHANGED <<model, req_vars, pipe_vars, gen_vars, raised, log>>
    /\ UNCHANGED <<ct_vars, conc_vars>>

\* the status the handler's except clause answers an exception e with
ExceptStatus(e) == 500

\* except Exception as e: raise HTTPException(status_code=500, detail=str(e))
SimplifyExcept ==
    /\ pc = "s_except"
    /\ response' = [status_code |-> ExceptStatus(raised), body |-> raised.detail]
    /\ pc' = "done"
    /\ UNCHANGED <<model, req_vars, pipe_vars, gen_vars, raised, log>>
    /\ UNCHANGED <<ct_vars, conc_vars>>

\* ---------------------------------------------------- chat_with_document

\* POST /chat: the prompt and await simplify_text_chunk(prompt)
ChatWithDocument ==
    /\ pc = "idle"
    /\ endpoint' = "/chat"
    /\ \E m \in ChatMessages : CallSimplifyTextChunk("chat", ChatPrompt(m))
    /\ pc' = "g_attempt"
    /\ UNCHANGED <<model, content, file_type, document_text, pipe_vars, raised,
                   response, log>>
    /\ UNCHANGED <<ct_vars, conc_vars>>

\* return {"response": response}
ChatReturn ==
    /\ pc = "g_done" /\ caller = "chat" /\ outcome = "ok"
    /\ response' = [status_code |-> 200, body |-> Generated(Prompt(chunk))]
    /\ pc' = "done"
    /\ UNCHANGED <<model, req_vars, pipe_vars, gen_vars, raised, log>>
    /\ UNCHANGED <<ct_vars, conc_vars>>

\* except Exception as e: raise HTTPException(status_code=500, detail=str(e))
ChatExcept ==
    /\ pc = "g_done" /\ caller = "chat" /\ outcome = "RetryError"
    /\ raised' = [type |-> "RetryError", status_code |-> 0, detail |-> "RetryError"]
    /\ response' = [status_code |-> 500, body |-> "RetryError"]
    /\ pc' = "done"
    /\ UNCHANGED <<model, req_vars, pipe_vars, gen_vars, log>>
    /\ UNCHANGED <<ct_vars, conc_vars>>

\* ---------------------------------------------------------- the service

Next ==
    \/ SimplifyDocument
    \/ ExtractText
    \/ CheckAndChunk
    \/ LoopNext
    \/ ChunkAppend
    \/ ChunkExcept
    \/ SubLoopNext
    \/ SubAppend
    \/ SubExcept
    \/ SimplifyReturn
    \/ SimplifyExcept
    \/ ChatWithDocument
    \/ ChatReturn
    \/ ChatExcept
    \/ AttemptStart
    \/ GenerateReturns
    \/ GenerateRaises
    \/ ExceptSleepRaise
    \/ TenacityRetry

Spec == Init /\ [][Next]_vars

\* the event loop keeps running the coroutine, and every external call,
\* sleep and wait returns
FairSpec == Spec /\ WF_vars(Next)

\* --------------------------------------------- chunk_text as a program

InitChunk ==
    /\ model = "initialized"
    /\ Idle
    /\ ct_pc = "call"
    /\ ct_text \in SeqsUpTo(Chars, MaxTextLen)
    /\ ct_chunk_size \in 1..MaxBound
    /\ ct_chunks = <<>>

CallChunkText ==
    /\ ct_pc = "call"
    /\ ct_chunks' = chunk_text(ct_text, ct_chunk_size)
    /\ ct_pc' = "returned"
    /\ UNCHANGED <<ct_text, ct_chunk_size>>
    /\ UNCHANGED <<model, pc, req_vars, pipe_vars, gen_vars, raised, response, log>>
    /\ UNCHANGED conc_vars

NextChunk == CallChunkText

SpecChunk == InitChunk /\ [][NextChunk]_vars

\* ------------------------------------- two /simplify requests at once
\* Each coroutine has its own document_text, chunks, simplified_chunks and
\* loop indices (locals of simplify_document, process_chunks_with_rate_limit
\* and the retry state of its simplify_text_chunk call); the coroutines
\* share the module-level model only. A step below runs one coroutine from
\* one await to a later point; the other may run between any two steps.

seq_vars == <<model, pc, req_vars, pipe_vars, gen_vars, raised, response, log, ct_vars>>

\* the uploads of request r: texts in a letter of its own
Letter(r) == IF r = 1 THEN "a" ELSE "b"

ConcDocs(r) ==
    LET c == Letter(r)
    IN  {<<c, c, " ", c, c>>, <<c, " ", c>>, <<c, c, c, c>>}

\* the call a coroutine has made: chunk ci (cj = 0) or its sub-chunk cj
Call(rq, ok) == [i |-> rq.i, j |-> rq.j, ok |-> ok]

\* the text the coroutine's current call is about
CurrentChunk(rq) ==
    IF rq.caller = "sub" THEN rq.sub_chunks[rq.j] ELSE rq.chunks[rq.i]

\* simplify_document up to the pipeline: the text is read and chunked
ConcSimplifyDocument ==
    \E r \in Requests :
        /\ model = "initialized"
        /\ requests[r].pc = "idle"
        /\ \E text \in ConcDocs(r) :
              requests' = [requests EXCEPT ![r] =
                  [@ EXCEPT !.document_text = text,
                            !.chunks = chunk_text(text, ChunkSize),
                            !.i = 1,
                            !.pc = "p_loop"]]
        /\ UNCHANGED seq_vars

\* the head of the for loop, after the pacing sleep: the call for chunk i,
\* or the return and the response after the last chunk
ConcLoopNext ==
    \E r \in Requests :
        LET rq == requests[r]
        IN  /\ rq.pc = "p_loop"
            /\ requests' = [requests EXCEPT ![r] =
                  IF rq.i > Len(rq.chunks)
                  THEN [rq EXCEPT !.pc = "done"]
                  ELSE [rq EXCEPT !.caller = "chunk",
                                  !.attempt_number = 1,
                                  !.pc = "g_attempt"]]
            /\ UNCHANGED seq_vars

\* the head of the fallback loop, after its pacing sleep
ConcSubLoopNext ==
    \E r \in Requests :
        LET rq == requests[r]
        IN  /\ rq.pc = "p_sub_loop"
            /\ requests' = [requests EXCEPT ![r] =
                  IF rq.j > Len(rq.sub_chunks)
                  THEN [rq EXCEPT !.i = rq.i + 1,
                                  !.j = 0,
                                  !.sub_chunks = <<>>,
                                  !.pc = "p_loop"]
                  ELSE [rq EXCEPT !.caller = "sub",
                                  !.attempt_number = 1,
                                  !.pc = "g_attempt"]]
            /\ UNCHANGED seq_vars

\* the locals of all coroutines after that of request r has appended the
\* fragment of its successful attempt to the list of request `to`
WithFragment(r, to) ==
    LET rq == requests[r]
        fragment == Generated(Prompt(CurrentChunk(rq)))
        moved == [rq EXCEPT !.calls = Append(rq.calls, Call(rq, TRUE)),
                            !.i = IF rq.caller = "chunk" THEN rq.i + 1 ELSE rq.i,
                            !.j = IF rq.caller = "sub" THEN rq.j + 1 ELSE rq.j,
                            !.pc = IF rq.caller = "chunk" THEN "p_loop"
                                   ELSE "p_sub_loop"]
    IN  [q \in Requests |->
            LET base == IF q = r THEN moved ELSE requests[q]
            IN  IF q = to
                THEN [base EXCEPT !.simplified_chunks =
                          Append(base.simplified_chunks, fragment)]
                ELSE base]

\* a mutant of ConcAttemptOk: simplified_chunks is one list of the module
ConcAttemptOk_SharedList ==
    \E r \in Requests :
        /\ requests[r].pc = "g_attempt"
        /\ requests' = WithFragment(r, 1)
        /\ UNCHANGED seq_vars

\* an attempt returns text: the coroutine appends it to its own list
ConcAttemptOk ==
    \E r \in Requests :
        /\ requests[r].pc = "g_attempt"
        /\ requests' = WithFragment(r, r)
        /\ UNCHANGED seq_vars

\* an attempt raises: the jitter sleep, then the backoff wait and the next
\* attempt, or RetryError after the last
ConcAttemptFails ==
    \E r \in Requests :
        LET rq == requests[r]
        IN  /\ rq.pc = "g_attempt"
            /\ requests' = [requests EXCEPT ![r] =
                  IF stop_after_attempt(rq.attempt_number)
                  THEN [rq EXCEPT !.pc = "g_giveup"]
                  ELSE [rq EXCEPT !.attempt_number = rq.attempt_number + 1]]
            /\ UNCHANGED seq_vars

\* except Exception: the fallback on the failed chunk
ConcChunkExcept ==
    \E r \in Requests :
        LET rq == requests[r]
        IN  /\ rq.pc = "g_giveup" /\ rq.caller = "chunk"
            /\ requests' = [requests EXCEPT ![r] =
                  [rq EXCEPT !.calls = Append(rq.calls, Call(rq, FALSE)),
                             !.sub_chunks = chunk_text(rq.chunks[rq.i], SubChunkSize),
                             !.j = 1,
                             !.pc = "p_sub_loop"]]
            /\ UNCHANGED seq_vars

\* except Exception as sub_e: the error marker
ConcSubExcept ==
    \E r \in Requests :
        LET rq == requests[r]
        IN  /\ rq.pc = "g_giveup" /\ rq.caller = "sub"
            /\ requests' = [requests EXCEPT ![r] =
                  [rq EXCEPT !.calls = Append(rq.calls, Call(rq, FALSE)),
                             !.simplified_chunks =
                                 Append(rq.simplified_chunks, ErrorMarker),
                             !.j = rq.j + 1,
                             !.pc = "p_sub_loop"]]
            /\ UNCHANGED seq_vars

InitConc ==
    /\ model = "initialized"
    /\ Idle
    /\ CtIdle

NextConc ==
    \/ ConcSimplifyDocument
    \/ ConcLoopNext
    \/ ConcSubLoopNext
    \/ ConcAttemptOk
    \/ ConcAttemptFails
    \/ ConcChunkExcept
    \/ ConcSubExcept

SpecConc == InitConc /\ [][NextConc]_vars

\* ------------------------------------------------- claims: the pipeline

Events == 1..Len(log)

\* the events of kind ev of the call for chunk ci (cj = 0) or its sub-chunk cj
EventsOf(ev, ci, cj) ==
    {p \in Events : log[p].ev = ev /\ log[p].i = ci /\ log[p].j = cj}

Succeeded(ci, cj) == EventsOf("ok", ci, cj) # {}

ErrorMarkers ==
    {k \in 1..Len(simplified_chunks) : simplified_chunks[k] = ErrorMarker}

\* the pipeline was entered by this request, resp. has returned
Entered == endpoint = "/simplify" /\ i >= 1
Returned == Entered /\ pc \in {"s_join", "done"}

\* C1: no exception escapes process_chunks_with_rate_limit, and its list has
\* one error marker for every sub-chunk whose generation gave up.
C1_NeverFails ==
    /\ Entered => raised = NoException
    /\ Entered => pc # "s_except"
    /\ Returned =>
          Cardinality(ErrorMarkers)
              = Cardinality({p \in Events : log[p].ev = "giveup" /\ log[p].j > 0})

\* the pipeline returned a list with a fragment and an error marker
C1_Witness ==
    /\ Returned
    /\ ErrorMarkers # {}
    /\ Cardinality(ErrorMarkers) < Len(simplified_chunks)

\* the fragments of chunk ci: its own, or those of its sub-chunks in order
Group(ci) ==
    IF Succeeded(ci, 0)
    THEN <<Generated(Prompt(chunks[ci]))>>
    ELSE LET subs == chunk_text(chunks[ci], SubChunkSize)
         IN  [cj \in 1..Len(subs) |->
                 IF Succeeded(ci, cj) THEN Generated(Prompt(subs[cj]))
                 ELSE ErrorMarker]

RECURSIVE Groups(_)
Groups(n) == IF n = 0 THEN <<>> ELSE Groups(n - 1) \o Group(n)

\* C2: the returned list is the concatenation, in chunk order, of each
\* chunk's fragment group.
C2_OrderPreserved ==
    Returned => simplified_chunks = Groups(Len(chunks))

\* 3 chunks, the 2nd fell back to 2 sub-chunks, the first of which succeeded
\* and the second failed: [fragment1, subfragment2a, error marker, fragment3]
C2_Witness ==
    /\ Returned
    /\ Len(chunks) = 3
    /\ Succeeded(1, 0) /\ Succeeded(3, 0)
    /\ ~Succeeded(2, 0) /\ Succeeded(2, 1)
    /\ Len(chunk_text(chunks[2], SubChunkSize)) = 2
    /\ Len(simplified_chunks) = 4
    /\ simplified_chunks[1] = Generated(Prompt(chunks[1]))
    /\ simplified_chunks[1] # simplified_chunks[4]
    /\ simplified_chunks[3] = ErrorMarker

\* the events a step appends to the log
NewEvents == (Len(log) + 1)..Len(log')

\* C3: an attempt that started completes before anything else of the run
\* happens, so at most one call is in flight, and no event goes back to an
\* earlier chunk or sub-chunk.
C3_Sequential ==
    [][\A p \in NewEvents :
          p > 1 =>
              /\ log'[p - 1].ev = "start" =>
                    /\ log'[p].ev \in {"ok", "fail"}
                    /\ log'[p].i = log'[p - 1].i
                    /\ log'[p].j = log'[p - 1].j
                    /\ log'[p].n = log'[p - 1].n
              /\ \/ log'[p - 1].i < log'[p].i
                 \/ log'[p - 1].i = log'[p].i /\ log'[p - 1].j <= log'[p].j
      ]_vars

\* chunk 2 is being attempted after chunk 1 went through a fallback
C3_Witness ==
    /\ pc = "g_call"
    /\ i = 2
    /\ \E p \in Events : log[p].i = 1 /\ log[p].j >= 1 /\ log[p].ev = "start"

\* in the log after the step, event q is the event ev of the same call as
\* event p, for attempt n
SameCall(p, q, ev, n) ==
    /\ q \in 1..Len(log')
    /\ log'[q].ev = ev
    /\ log'[q].i = log'[p].i
    /\ log'[q].j = log'[p].j
    /\ log'[q].n = n

\* C9: one call of simplify_text_chunk makes at most 3 attempts: an attempt
\* after the first follows the failure of the one before, a failure before
\* the 3rd is retried, the 3rd failure raises, and the call ends only with
\* the result of a successful attempt or with that error.
C9_ThreeAttempts ==
    [][/\ \A p \in NewEvents :
            LET n == log'[p].n
            IN  /\ log'[p].ev = "start" =>
                      /\ n \in 1..3
                      /\ n = 1 => (p = 1 \/ log'[p - 1].ev \in {"pace", "ok", "giveup"})
                      /\ n > 1 =>
                            /\ log'[p - 1].ev = "backoff"
                            /\ SameCall(p, p - 2, "jitter", n - 1)
                            /\ SameCall(p, p - 3, "fail", n - 1)
                            /\ SameCall(p, p - 4, "start", n - 1)
                /\ log'[p].ev \in {"ok", "fail"} => SameCall(p, p - 1, "start", n)
                /\ log'[p].ev = "jitter" => SameCall(p, p - 1, "fail", n)
                /\ log'[p].ev = "backoff" =>
                      /\ log'[p - 1].ev = "jitter"
                      /\ log'[p - 1].n < 3
                /\ log'[p].ev = "giveup" =>
                      /\ SameCall(p, p - 1, "jitter", 3)
                      /\ Cardinality({q \in 1..Len(log') :
                             SameCall(p, q, "fail", log'[q].n)}) = 3
       /\ (pc # "g_done" /\ pc' = "g_done") =>
             \/ outcome' = "ok" /\ log'[Len(log')].ev = "ok"
             \/ outcome' = "RetryError" /\ log'[Len(log')].ev = "giveup"
       /\ (pc = "g_done" /\ pc' # "g_done") => log' = log
      ]_vars

\* one call returned on its 3rd attempt and another gave up
C9_Witness ==
    /\ \E p \in Events : log[p].ev = "ok" /\ log[p].n = 3
    /\ \E p \in Events : log[p].ev = "giveup"
    /\ pc = "g_done"

\* C10: an error marker is appended only when the chunk's call and the
\* sub-chunk's call both failed 3 times, and a chunk whose call succeeded
\* gets neither a sub-chunk call nor an error marker.
C10_TwoLevels ==
    [][/\ (/\ Len(simplified_chunks') = Len(simplified_chunks) + 1
           /\ simplified_chunks'[Len(simplified_chunks')] = ErrorMarker)
          => /\ j >= 1
             /\ Cardinality(EventsOf("fail", i, 0)) = 3
             /\ Cardinality(EventsOf("fail", i, j)) = 3
             /\ ~Succeeded(i, 0)
       /\ (Len(log') > Len(log) /\ log'[Len(log')].j >= 1)
          => /\ ~Succeeded(log'[Len(log')].i, 0)
             /\ Cardinality(EventsOf("fail", log'[Len(log')].i, 0)) = 3
       /\ (/\ Len(log') > Len(log)
           /\ log'[Len(log')].ev = "ok" /\ log'[Len(log')].j = 0)
          => \A p \in Events : log[p].i = i => log[p].j = 0
      ]_vars

\* an error marker is in the list, after a chunk that succeeded on a retry
C10_Witness ==
    /\ ErrorMarkers # {}
    /\ \E p \in Events : log[p].ev = "ok" /\ log[p].j = 0 /\ log[p].n >= 2

\* C11: a call for the whole chunk is eventually made for every input
\* chunk whatever failed before it, and a fallback whose every sub-chunk
\* failed leaves that many consecutive error markers and goes on to the
\* next chunk.
AllChunksCalled ==
    /\ Entered
    /\ \A k \in 1..Len(chunks) : EventsOf("start", k, 0) # {}

C11_FailureNeverStops ==
    /\ <>(pc = "done" /\ (Entered => AllChunksCalled))
    /\ [][(pc = "p_sub_loop" /\ j > Len(sub_chunks) /\ pc' # pc) =>
             /\ pc' = "p_loop"
             /\ i' = i + 1
             /\ (\A cj \in 1..Len(sub_chunks) : ~Succeeded(i, cj)) =>
                   /\ Len(simplified_chunks) >= Len(sub_chunks)
                   /\ \A k \in 1..Len(sub_chunks) :
                         simplified_chunks[Len(simplified_chunks) + 1 - k]
                             = ErrorMarker
      ]_vars

\* chunk 2 is being called after both sub-chunks of chunk 1 failed
C11_Witness ==
    /\ pc = "g_call" /\ caller = "chunk"
    /\ i = 2
    /\ simplified_chunks = <<ErrorMarker, ErrorMarker>>

\* the number of fragments chunk ci is to contribute
FanOut(ci) ==
    IF Succeeded(ci, 0) THEN 1 ELSE Len(chunk_text(chunks[ci], SubChunkSize))

RECURSIVE SumFanOut(_)
SumFanOut(n) == IF n = 0 THEN 0 ELSE SumFanOut(n - 1) + FanOut(n)

\* C12: the returned list has one fragment per chunk that succeeded and one
\* per sub-chunk of every other chunk; with every chunk succeeding it is as
\* long as the input and holds no error marker.
C12_FanOut ==
    Returned =>
        /\ Len(simplified_chunks) = SumFanOut(Len(chunks))
        /\ (\A k \in 1..Len(chunks) : Succeeded(k, 0)) =>
              /\ Len(simplified_chunks) = Len(chunks)
              /\ ErrorMarkers = {}

\* a run with a chunk that succeeded and a fallback of 2 sub-chunks, one of
\* which failed
C12_Witness ==
    /\ Returned
    /\ \E k \in 1..Len(chunks) : Succeeded(k, 0)
    /\ \E k \in 1..Len(chunks) : ~Succeeded(k, 0) /\ FanOut(k) = 2
    /\ ErrorMarkers # {}

\* the upload is of a supported type and its text was extracted and is not
\* blank
ValidUpload ==
    /\ endpoint = "/simplify"
    /\ model = "initialized"
    /\ file_type \in {"application/pdf", "text/plain"}
    /\ ~StripIsEmpty(document_text)

\* C13: a /simplify request with the model initialized, a supported type
\* and a non-blank text is answered with 200 and 'original' and
\* 'simplified', whatever generation failed, and it is answered.
C13_AlwaysOk ==
    /\ [](ValidUpload /\ pc = "done" =>
             /\ response.status_code = 200
             /\ response.body.original = document_text
             /\ response.body.simplified = join(<<"\n", "\n">>, simplified_chunks))
    /\ [](ValidUpload /\ pc # "done" => ENABLED Next)
    /\ [](ValidUpload => raised = NoException)

\* answered 200 although every chunk and every sub-chunk failed
C13_Witness ==
    /\ ValidUpload /\ pc = "done"
    /\ response.status_code = 200
    /\ Len(chunks) >= 2
    /\ Len(simplified_chunks) >= 2
    /\ Cardinality(ErrorMarkers) = Len(simplified_chunks)

\* C14: a request rejected for its type, for an unreadable PDF or for a
\* blank text never reaches the chunker, the pipeline or the generation
\* client.
C14_RejectedBeforePipeline ==
    (/\ endpoint = "/simplify"
     /\ file_type # ""
     /\ \/ file_type \notin {"application/pdf", "text/plain"}
        \/ raised.detail = "Could not read the PDF document"
        \/ StripIsEmpty(document_text))
    => /\ log = <<>>
       /\ chunks = <<>> /\ i = 0
       /\ sub_chunks = <<>> /\ simplified_chunks = <<>>
       /\ caller = "none" /\ attempt_number = 0
       /\ pc \in {"s_check", "s_except", "done"}
       /\ pc = "done" => response.status_code # 200

\* requests rejected for each of the three reasons
C14_Witness ==
    /\ pc = "done" /\ endpoint = "/simplify"
    /\ file_type = "text/plain"
    /\ content # <<>>
    /\ StripIsEmpty(document_text)
    /\ raised.detail = "The uploaded file is empty"

\* C16: a pacing sleep is taken right before the first attempt of every
\* whole-chunk call but that of chunk 1 and of every sub-chunk call, the
\* first sub-chunk included; it is taken once per call, after the call
\* before it has ended and before its own call starts.
C16_PacingOrder ==
    [][\A p \in NewEvents :
          Entered =>
          /\ (log'[p].ev = "start" /\ log'[p].n = 1) =>
                IF log'[p].i = 1 /\ log'[p].j = 0
                THEN p = 1
                ELSE SameCall(p, p - 1, "pace", 0)
          /\ log'[p].ev = "pace" =>
                /\ ~(log'[p].i = 1 /\ log'[p].j = 0)
                /\ p > 1
                /\ log'[p - 1].ev \in {"ok", "giveup"}
                /\ \A q \in 1..(p - 1) :
                      ~(log'[q].i = log'[p].i /\ log'[q].j = log'[p].j)
                /\ pc' = "g_attempt" /\ attempt_number' = 1
      ]_vars

\* chunk 1 was called unpaced, its first sub-chunk and chunk 2 were paced
C16_Witness ==
    /\ Len(log) >= 2
    /\ log[1].ev = "start"
    /\ \E p \in Events : log[p].ev = "pace" /\ log[p].i = 1 /\ log[p].j = 1
    /\ log[Len(log) - 1].ev = "pace" /\ log[Len(log) - 1].i = 2
    /\ log[Len(log) - 1].j = 0
    /\ log[Len(log)].ev = "start"

\* C17: when a call of simplify_text_chunk has ended, it has slept the
\* jitter as many times as it made re-attempts.
C17_JitterPerRetry ==
    (pc = "g_done" /\ caller \in {"chunk", "sub"}) =>
        Cardinality(EventsOf("jitter", i, j))
            = Cardinality(EventsOf("start", i, j)) - 1

\* C18 as stated: the wait after failed attempt k is min(4 * 2^(k-1), 10)
C18_Doubling ==
    [][\A p \in NewEvents :
          log'[p].ev = "backoff" =>
              log'[p].n = Min(4 * Pow2(log'[p - 1].n - 1), 10)
      ]_vars

\* C18: the wait of the retry layer after failed attempt k (k = 1, 2) is
\* max(4, min(2^(k-1), 10)) seconds: 4 seconds after the first failure and
\* 4 seconds after the second.
C18_Backoff ==
    [][\A p \in NewEvents :
          log'[p].ev = "backoff" =>
              /\ log'[p - 1].ev = "jitter"
              /\ log'[p - 1].n \in {1, 2}
              /\ log'[p].n = 4
      ]_vars

\* a call that has waited after its first and after its second failure
C18_Witness ==
    /\ pc = "g_attempt" /\ attempt_number = 3
    /\ Cardinality(EventsOf("backoff", i, j)) = 2

\* C19: the request's pipeline returns; every call makes at most 3
\* attempts, each once; sub-chunk calls are made only for the sub-chunks of
\* a chunk whose call failed 3 times, and the sub-chunk list is only ever
\* the chunking of a whole chunk that failed, never of a sub-chunk.
C19_Terminates ==
    /\ <>(pc = "done")
    /\ [][/\ \A p \in NewEvents :
                (Entered /\ log'[p].ev = "start") =>
                    /\ log'[p].n \in 1..3
                    /\ log'[p].i \in 1..Len(chunks)
                    /\ \A q \in 1..(p - 1) :
                          ~SameCall(p, q, "start", log'[p].n)
                    /\ log'[p].j > 0 =>
                          /\ Cardinality(EventsOf("fail", log'[p].i, 0)) = 3
                          /\ log'[p].j
                                \in 1..Len(chunk_text(chunks[log'[p].i], SubChunkSize))
          /\ sub_chunks' # sub_chunks =>
                \/ /\ caller = "chunk" /\ outcome = "RetryError"
                   /\ sub_chunks = <<>>
                   /\ sub_chunks' = chunk_text(chunks[i], SubChunkSize)
                \/ /\ pc = "p_sub_loop" /\ j > Len(sub_chunks)
                   /\ sub_chunks' = <<>>
          /\ (caller = "sub" /\ pc = "g_done") =>
                /\ pc' = "p_sub_loop"
                /\ Len(simplified_chunks') = Len(simplified_chunks) + 1
         ]_vars

\* the pipeline returned after a chunk and one of its sub-chunks each took
\* 3 attempts
C19_Witness ==
    /\ pc = "done" /\ Entered
    /\ \E p \in Events : log[p].ev = "giveup" /\ log[p].j > 0
    /\ \E p \in Events : log[p].ev = "start" /\ log[p].j > 0 /\ log[p].n = 1
                            /\ Succeeded(log[p].i, log[p].j)

\* C20: the returned list is at least as long as the list of chunks.
C20_NoChunkLost ==
    Returned => Len(simplified_chunks) >= Len(chunks)

\* the text of the call c of a coroutine with locals rq
CallText(rq, c) ==
    IF c.j = 0 THEN rq.chunks[c.i]
    ELSE chunk_text(rq.chunks[c.i], SubChunkSize)[c.j]

\* what the calls of a coroutine leave in its list, in the order made
RECURSIVE FragmentsOf(_, _)
FragmentsOf(rq, n) ==
    IF n = 0 THEN <<>>
    ELSE LET c == rq.calls[n]
         IN  FragmentsOf(rq, n - 1)
                 \o (IF c.ok THEN <<Generated(Prompt(CallText(rq, c)))>>
                     ELSE IF c.j > 0 THEN <<ErrorMarker>>
                     ELSE <<>>)

\* C15: with two /simplify requests interleaved, the list of each holds
\* exactly what its own calls on its own chunks produced, in the order of
\* its chunks, and no text of the other request's document.
C15_Isolation ==
    \A r \in Requests :
        LET rq == requests[r]
        IN  /\ rq.simplified_chunks = FragmentsOf(rq, Len(rq.calls))
            /\ \A n \in 1..Len(rq.calls) :
                  /\ rq.calls[n].i \in 1..Len(rq.chunks)
                  /\ n > 1 =>
                        \/ rq.calls[n].i > rq.calls[n - 1].i
                        \/ /\ rq.calls[n].i = rq.calls[n - 1].i
                           /\ rq.calls[n].j = rq.calls[n - 1].j + 1
            /\ \A k \in 1..Len(rq.simplified_chunks) :
                  LET f == rq.simplified_chunks[k]
                  IN  \/ f = ErrorMarker
                      \/ /\ Len(f) >= 2
                         /\ \A x \in 3..Len(f) : f[x] \in {Letter(r), " "}
            /\ rq.chunks # <<>> => rq.chunks = chunk_text(rq.document_text, ChunkSize)

\* both requests are under way at once, each with a fragment and an error
\* marker of its own, one between two attempts of a call
C15_Witness ==
    /\ requests[1].pc = "g_attempt" /\ requests[1].attempt_number = 2
    /\ requests[2].pc = "p_sub_loop"
    /\ \A r \in Requests :
          /\ ErrorMarker \in {requests[r].simplified_chunks[k] :
                                 k \in 1..Len(requests[r].simplified_chunks)}
          /\ \E k \in 1..Len(requests[r].simplified_chunks) :
                requests[r].simplified_chunks[k] # ErrorMarker

\* ------------------------------------------------ claims: the handlers

\* C4: with the model initialized, /simplify answers an unsupported type,
\* an unreadable PDF and an empty text with status 400.
C4_Rejected400 ==
    (/\ endpoint = "/simplify"
     /\ model = "initialized"
     /\ pc = "done"
     /\ \/ file_type \notin {"application/pdf", "text/plain"}
        \/ raised.detail = "Could not read the PDF document"
        \/ raised.detail = "The uploaded file is empty")
    => response.status_code = 400

\* C5: with model None both endpoints answer 500 with nothing read, no
\* attempt of the generation client, no sleep and no wait.
C5_RejectedAtOnce ==
    model = "None" =>
        /\ log = <<>>
        /\ content = <<>>
        /\ document_text = <<>>
        /\ pc = "done" => response.status_code = 500

\* ------------------------------------------------ claims: chunk_text

\* C6: joining chunk_text(T, B) with single spaces gives exactly the words
\* of T joined with single spaces.
C6_RoundTrip ==
    ct_pc = "returned" =>
        join(<<" ">>, ct_chunks) = join(<<" ">>, split(ct_text))

\* C7: empty or whitespace-only text yields the empty sequence, a single word
\* longer than B yields exactly that word, and every chunk is non-empty.
C7_EdgeCases ==
    ct_pc = "returned" =>
        /\ StripIsEmpty(ct_text) => ct_chunks = <<>>
        /\ (Len(split(ct_text)) = 1 /\ Len(split(ct_text)[1]) > ct_chunk_size)
               => ct_chunks = <<split(ct_text)[1]>>
        /\ \A k \in 1..Len(ct_chunks) : ct_chunks[k] # <<>>

\* C8: every chunk has serialized length at most B, except a chunk that is
\* exactly one word which alone is longer than B.
C8_SizeBound ==
    ct_pc = "returned" =>
        \A k \in 1..Len(ct_chunks) :
            Len(ct_chunks[k]) > ct_chunk_size =>
                /\ Len(split(ct_chunks[k])) = 1
                /\ Len(split(ct_chunks[k])[1]) > ct_chunk_size

\* a one-word chunk over B was returned after a chunk within B
C8_Witness ==
    /\ ct_pc = "returned"
    /\ \E k \in 1..Len(ct_chunks) :
          /\ k > 1
          /\ Len(ct_chunks[k]) > ct_chunk_size
          /\ ct_chunks[k - 1] # <<>>
          /\ Len(ct_chunks[k - 1]) <= ct_chunk_size

====
